---- MODULE Spec2Model ----
(***************************************************************************)
(* Model of the graph-rewriting and tensor-extraction helpers of utils.py: *)
(* extract_data, find_initializer, find_tensor_value_info and              *)
(* change_batch_size, operating on an in-memory ONNX graph.                *)
(*                                                                         *)
(* Representation choices                                                  *)
(*  - a name is a sequence of tokens; the reserved suffix '_before_merge'  *)
(*    is one token, so str.endswith / slicing become operations on the     *)
(*    last token;                                                          *)
(*  - a float32 is represented by its IEEE-754 word (sign bit clear), an   *)
(*    int64 by its value (|v| < 2^31); raw_data is a sequence of bytes in  *)
(*    little-endian order, as struct's native order on the usual hosts;    *)
(*  - tensors have rank 0 or 1 (a Reshape target shape is a 1-D tensor);   *)
(*  - a Python exception is the name of its class.                         *)
(***************************************************************************)
EXTENDS Integers, Sequences, FiniteSets, TLC

VARIABLES graph, cbs, ext, fnd

vars == <<graph, cbs, ext, fnd>>

(* ------------------------------ bounds --------------------------------- *)
\* largest number of elements stored in a generated initializer
MaxLen == 2
\* largest number of consecutive change_batch_size calls explored
MaxCalls == 2

(* ------------------------------ names ---------------------------------- *)
SUFFIX == "_before_merge"

NameX == <<"x">>
NameY == <<"y">>
NameZ == <<"z">>
NameC == <<"c">>
NameW == <<"w">>
NameShape0 == <<"shape0">>
NameMissing == <<"nope">>
NameXBeforeMerge == <<"x", SUFFIX>>

(* --------------------------- protobuf records -------------------------- *)
\* TensorShapeProto.Dimension: a oneof of dim_value and dim_param
DimValue(n) == [which |-> "dim_value", dim_value |-> n, dim_param |-> ""]
DimParam(s) == [which |-> "dim_param", dim_value |-> 0, dim_param |-> s]

ValueInfoProto(name, shape) == [name |-> name, shape |-> shape]

TensorProto(name, data_type, dims, float_data, int64_data, raw_data) ==
    [name |-> name, data_type |-> data_type, dims |-> dims,
     float_data |-> float_data, int64_data |-> int64_data, raw_data |-> raw_data]

NodeProto(op_type, input, output) ==
    [op_type |-> op_type, input |-> input, output |-> output]

\* the batch_size argument: Union[str, int]
BatchStr(s) == [is_str |-> TRUE, str |-> s, int |-> 0]
BatchInt(n) == [is_str |-> FALSE, str |-> "", int |-> n]

(* ------------------------------ struct --------------------------------- *)
\* struct.calcsize of the two format characters
calcsize(format_char) == IF format_char = "f" THEN 4 ELSE 8

RECURSIVE horner(_, _)
\* value of the bytes b[1..n] read as an unsigned number, b[n] least significant
horner(b, n) == IF n = 0 THEN 0 ELSE b[n] + 256 * horner(b, n - 1)

Reverse(s) == [i \in 1..Len(s) |-> s[Len(s) + 1 - i]]
LittleEndian(b) == horner(Reverse(b), Len(b))

\* struct.unpack('q', b): two's complement, little-endian
unpack_q(b) ==
    IF b[8] >= 128
    THEN -(LittleEndian([i \in 1..8 |-> 255 - b[i]]) + 1)
    ELSE LittleEndian(b)

\* struct.unpack('f', b): the float32 whose word is the little-endian number
unpack_f(b) == LittleEndian(b)

unpack(format_char, b) == IF format_char = "f" THEN unpack_f(b) ELSE unpack_q(b)

\* struct.pack('q', v) and struct.pack('f', v), the encodings that
\* iter_unpack reads back
pack_q(v) == [i \in 1..8 |-> IF i <= 4 THEN (v \div (256 ^ (i - 1))) % 256
                             ELSE IF v < 0 THEN 255 ELSE 0]
pack_f(w) == [i \in 1..4 |-> (w \div (256 ^ (i - 1))) % 256]
pack(format_char, v) == IF format_char = "f" THEN pack_f(v) ELSE pack_q(v)

RECURSIVE pack_all(_, _)
pack_all(format_char, vals) ==
    IF vals = <<>> THEN <<>>
    ELSE pack(format_char, Head(vals)) \o pack_all(format_char, Tail(vals))

\* list(map(lambda t: t[0], struct.iter_unpack(format_char, raw_data)))
iter_unpack(format_char, raw_data) ==
    LET size == calcsize(format_char) IN
    IF Len(raw_data) % size # 0
    THEN [exc |-> "struct.error", ret |-> <<>>]
    ELSE [exc |-> "",
          ret |-> [k \in 1..(Len(raw_data) \div size) |->
                     unpack(format_char,
                            SubSeq(raw_data, (k - 1) * size + 1, k * size))]]

(* --------------------------- extract_data ------------------------------ *)
Raise(exc) == [kind |-> "raise", exc |-> exc, typ |-> "", shape |-> <<>>, data |-> <<>>]
Scalar(typ, v) == [kind |-> "scalar", exc |-> "", typ |-> typ, shape |-> <<>>, data |-> <<v>>]
Array(typ, shape, data) == [kind |-> "array", exc |-> "", typ |-> typ, shape |-> shape, data |-> data]

\* np.reshape(ret, dims) for a non-empty dims of rank 1; -1 is inferred
np_reshape(typ, ret, dims) ==
    IF dims[1] = -1 \/ dims[1] = Len(ret)
    THEN Array(typ, <<Len(ret)>>, ret)
    ELSE Raise("ValueError")

\* lines 173-183: which stored sequence is decoded
select_data_rawfirst(params) ==
    IF params.data_type \notin {"FLOAT", "INT64"}
    THEN [exc |-> "KeyError", ret |-> <<>>]
    ELSE IF params.raw_data # <<>>
    THEN iter_unpack(IF params.data_type = "FLOAT" THEN "f" ELSE "q", params.raw_data)
    ELSE [exc |-> "", ret |-> IF params.data_type = "FLOAT" THEN params.float_data
                                                             ELSE params.int64_data]
select_data(params) ==
    IF params.data_type = "FLOAT" /\ params.float_data # <<>>
    THEN [exc |-> "", ret |-> params.float_data]
    ELSE IF params.data_type = "INT64" /\ params.int64_data # <<>>
    THEN [exc |-> "", ret |-> params.int64_data]
    ELSE IF params.data_type \notin {"FLOAT", "INT64"}
    THEN [exc |-> "KeyError", ret |-> <<>>]
    ELSE iter_unpack(IF params.data_type = "FLOAT" THEN "f" ELSE "q", params.raw_data)

\* lines 187-189: empty dims means scalar
scalar_result_first(typ, ret) ==
    IF Len(ret) >= 1 THEN Scalar(typ, ret[1]) ELSE Raise("AssertionError")
scalar_result(typ, ret) ==
    IF Len(ret) = 1 THEN Scalar(typ, ret[1]) ELSE Raise("AssertionError")

extract_data(params) ==
    LET sel == select_data(params)
        typ == IF params.data_type = "FLOAT" THEN "f" ELSE "q"
    IN  IF sel.exc # "" THEN Raise(sel.exc)
        ELSE IF Len(params.dims) = 0 THEN scalar_result(typ, sel.ret)
        ELSE np_reshape(typ, sel.ret, params.dims)

(* ------------------------------ lookups -------------------------------- *)
RECURSIVE first_index(_, _, _)
\* index of the first record of seq named name at or after position k, 0 if none
first_index(seq, name, k) ==
    IF k > Len(seq) THEN 0
    ELSE IF seq[k].name = name THEN k
    ELSE first_index(seq, name, k + 1)

\* find_initializer: position of the initializer (0 stands for None)
find_initializer(initializer, name) == first_index(initializer, name, 1)

\* lines 199-200
strip_suffix(name) ==
    IF Len(name) > 0 /\ name[Len(name)] = SUFFIX
    THEN SubSeq(name, 1, Len(name) - 1)
    ELSE name

NotFound == [found |-> FALSE, coll |-> "", idx |-> 0, exc |-> "ValueError"]
Found(coll, idx) == [found |-> TRUE, coll |-> coll, idx |-> idx, exc |-> ""]

\* the returned ValueInfoProto is identified by its place in the graph
find_tensor_value_info_inputfirst(g, name) ==
    LET n == strip_suffix(name) IN
    IF first_index(g.input, n, 1) # 0
    THEN Found("input", first_index(g.input, n, 1))
    ELSE IF first_index(g.value_info, n, 1) # 0
    THEN Found("value_info", first_index(g.value_info, n, 1))
    ELSE IF first_index(g.output, n, 1) # 0
    THEN Found("output", first_index(g.output, n, 1))
    ELSE NotFound
find_tensor_value_info(g, name) ==
    LET n == strip_suffix(name) IN
    IF first_index(g.value_info, n, 1) # 0
    THEN Found("value_info", first_index(g.value_info, n, 1))
    ELSE IF first_index(g.input, n, 1) # 0
    THEN Found("input", first_index(g.input, n, 1))
    ELSE IF first_index(g.output, n, 1) # 0
    THEN Found("output", first_index(g.output, n, 1))
    ELSE NotFound

(* -------------------------- change_batch_size -------------------------- *)
\* line 209
initializer_names(g) == {g.initializer[i].name : i \in DOMAIN g.initializer}
\* line 210
constant_names(g) ==
    {g.node[i].output[1] : i \in {j \in DOMAIN g.node : g.node[j].op_type = "Constant"}}

\* lines 216-219: the dimension written at index 0
batch_dim_value_only(batch_size) == DimValue(batch_size.int)
batch_dim(batch_size) ==
    IF batch_size.is_str THEN DimParam(batch_size.str) ELSE DimValue(batch_size.int)

\* lines 212-219 for one ValueInfoProto
rewrite_value_info_all(value_info, skip, batch_size) ==
    IF Len(value_info.shape) > 0
    THEN [value_info EXCEPT !.shape[1] = batch_dim(batch_size)]
    ELSE value_info
rewrite_value_info(value_info, skip, batch_size) ==
    IF value_info.name \in skip THEN value_info
    ELSE IF Len(value_info.shape) > 0
    THEN [value_info EXCEPT !.shape[1] = batch_dim(batch_size)]
    ELSE value_info

\* lines 211-219 over one of the three collections
rewrite_collection(seq, skip, batch_size) ==
    [i \in DOMAIN seq |-> rewrite_value_info(seq[i], skip, batch_size)]

\* onnx.helper.make_tensor(name, INT64, dims, vals): an int64 repeated
\* field rejects float values
make_tensor_no_dims(name, dims, vals, typ) ==
    IF typ = "f" THEN [exc |-> "TypeError", tensor |-> TensorProto(name, "INT64", <<>>, <<>>, <<>>, <<>>)]
    ELSE [exc |-> "", tensor |-> TensorProto(name, "INT64", <<>>, <<>>, vals, <<>>)]
make_tensor(name, dims, vals, typ) ==
    IF typ = "f" THEN [exc |-> "TypeError", tensor |-> TensorProto(name, "INT64", <<>>, <<>>, <<>>, <<>>)]
    ELSE [exc |-> "", tensor |-> TensorProto(name, "INT64", dims, <<>>, vals, <<>>)]

\* line 231: new_shape_value[0] = 0 on the decoded array; index 0 of an
\* empty array is out of bounds
set_batch_prepend(data) == [exc |-> "", data |-> <<0>> \o data]
set_batch_slice(data) ==
    [exc |-> "", data |-> [i \in DOMAIN data |-> IF i = 1 THEN 0 ELSE data[i]]]
set_batch(data) ==
    IF Len(data) = 0 THEN [exc |-> "IndexError", data |-> data]
    ELSE [exc |-> "", data |-> [data EXCEPT ![1] = 0]]

\* lines 230-237 for the target-shape initializer at position k
patch_target(initializer, k) ==
    LET new_shape == initializer[k]
        new_shape_value == extract_data(new_shape)
    IN  IF new_shape_value.kind = "raise"
        THEN [exc |-> new_shape_value.exc, initializer |-> initializer]
        ELSE IF new_shape_value.kind = "scalar"
        THEN [exc |-> "TypeError", initializer |-> initializer]
        ELSE IF set_batch(new_shape_value.data).exc # ""
        THEN [exc |-> set_batch(new_shape_value.data).exc, initializer |-> initializer]
        ELSE LET vals == set_batch(new_shape_value.data).data
                 made == make_tensor(new_shape.name, <<Len(vals)>>, vals,
                                     new_shape_value.typ)
             IN  IF made.exc # ""
                 THEN [exc |-> made.exc, initializer |-> initializer]
                 ELSE [exc |-> "",
                       initializer |-> [initializer EXCEPT ![k] = made.tensor]]

\* line 225: is the node skipped because its data input is an initializer
data_is_initializer(initializer, node) ==
    find_initializer(initializer, node.input[1]) # 0

RECURSIVE patch_reshapes(_, _, _)
\* lines 222-237: the loop over g.node, from node k on
patch_reshapes(initializer, node, k) ==
    IF k > Len(node) THEN [exc |-> "", initializer |-> initializer]
    ELSE IF node[k].op_type # "Reshape"
    THEN patch_reshapes(initializer, node, k + 1)
    ELSE IF data_is_initializer(initializer, node[k])
    THEN patch_reshapes(initializer, node, k + 1)
    ELSE IF Len(node[k].input) < 2
    THEN [exc |-> "IndexError", initializer |-> initializer]
    ELSE IF find_initializer(initializer, node[k].input[2]) = 0
    THEN patch_reshapes(initializer, node, k + 1)
    ELSE LET r == patch_target(initializer,
                               find_initializer(initializer, node[k].input[2]))
         IN  IF r.exc # "" THEN r
             ELSE patch_reshapes(r.initializer, node, k + 1)

\* lines 208-237: the graph after the rewrite steps, and the exception that
\* stopped them, if any
rewrite(g, batch_size) ==
    LET skip == initializer_names(g) \cup constant_names(g)
        g2 == [g EXCEPT !.value_info = rewrite_collection(g.value_info, skip, batch_size),
                        !.input = rewrite_collection(g.input, skip, batch_size),
                        !.output = rewrite_collection(g.output, skip, batch_size)]
        r == IF batch_size.is_str
             THEN patch_reshapes(g.initializer, g.node, 1)
             ELSE [exc |-> "", initializer |-> g.initializer]
    IN  [exc |-> r.exc, graph |-> [g2 EXCEPT !.initializer = r.initializer]]

\* line 240: the graph the caller is left with once the checker has answered
after_check_rollback(pre, mutated, ok) == IF ok THEN mutated ELSE pre
after_check(pre, mutated, ok) == mutated

(* ------------------------------ inputs --------------------------------- *)
SeqsUpTo(S, n) == UNION {[1..k -> S] : k \in 0..n}

IntVals == {-1, 0, 10}
\* the float32 words of 0.0 and 10.0
FloatWords == {0, 1092616192}

DimsFor(c) == {<<>>, <<Len(c)>>, <<Len(c) + 1>>, <<-1>>}
Encodings == {"typed", "raw", "both", "truncated"}

\* a tensor of the given type holding contents c in the given encoding; "both"
\* adds a raw buffer with other contents, "truncated" drops the last byte
Encoded(name, data_type, dims, c, enc) ==
    LET fc == IF data_type = "FLOAT" THEN "f" ELSE "q"
        bytes == pack_all(fc, c)
        typed == IF enc \in {"typed", "both"} THEN c ELSE <<>>
        raw == IF enc = "raw" THEN bytes
               ELSE IF enc = "both" THEN pack_all(fc, <<10, 10, 10>>)
               ELSE IF enc = "truncated" /\ c # <<>>
               THEN SubSeq(bytes, 1, Len(bytes) - 1)
               ELSE <<>>
    IN  TensorProto(name, data_type, dims,
                    IF data_type = "FLOAT" THEN typed ELSE <<>>,
                    IF data_type = "INT64" THEN typed ELSE <<>>,
                    raw)

TensorsOf(data_type, Vals) ==
    UNION {UNION {{Encoded(NameShape0, data_type, d, c, enc) : d \in DimsFor(c)}
                  : enc \in Encodings}
           : c \in SeqsUpTo(Vals, MaxLen)}

\* tensors the decoder does not support, or whose typed field is not the one
\* of their data type
OddTensors ==
    {TensorProto(NameShape0, "INT32", <<1>>, <<>>, <<>>, pack_f(10)),
     TensorProto(NameShape0, "INT32", <<>>, <<>>, <<>>, pack_f(10)),
     TensorProto(NameShape0, "INT64", <<1>>, <<0>>, <<>>, pack_q(10)),
     TensorProto(NameShape0, "FLOAT", <<1>>, <<>>, <<10>>, pack_f(0))}

AllTargets == TensorsOf("INT64", IntVals) \cup TensorsOf("FLOAT", FloatWords) \cup OddTensors

FewTargets ==
    {Encoded(NameShape0, "INT64", <<2>>, <<10, -1>>, "typed"),
     Encoded(NameShape0, "INT64", <<2>>, <<10, 10>>, "raw"),
     Encoded(NameShape0, "INT64", <<0>>, <<>>, "typed"),
     Encoded(NameShape0, "INT64", <<>>, <<10>>, "typed")}

Weight == Encoded(NameW, "FLOAT", <<2>>, <<0, 1092616192>>, "typed")

ReshapeX == NodeProto("Reshape", <<NameX, NameShape0>>, <<NameY>>)
ReshapeW == NodeProto("Reshape", <<NameW, NameShape0>>, <<NameZ>>)
ReshapeNoTarget == NodeProto("Reshape", <<NameX, NameMissing>>, <<NameY>>)
ReshapeOneInput == NodeProto("Reshape", <<NameX>>, <<NameY>>)
Constant == NodeProto("Constant", <<>>, <<NameC>>)
Relu == NodeProto("Relu", <<NameX>>, <<NameY>>)

AllNodeLists ==
    {<<>>, <<ReshapeX>>, <<ReshapeW>>, <<ReshapeW, ReshapeX>>, <<ReshapeX, ReshapeW>>,
     <<Constant, ReshapeX>>, <<ReshapeNoTarget>>, <<ReshapeOneInput>>,
     <<Relu, ReshapeX, ReshapeX>>, <<ReshapeX, ReshapeOneInput>>}
FewNodeLists == {<<ReshapeX>>, <<ReshapeW>>}

Shapes == {<<>>, <<DimValue(10)>>, <<DimValue(10), DimValue(3)>>,
           <<DimParam("N"), DimValue(3)>>}

AllValueInfoLists ==
    {<<>>} \cup {<<ValueInfoProto(n, s)>> :
                   n \in {NameY, NameC, NameW, NameXBeforeMerge}, s \in Shapes}
           \cup {<<ValueInfoProto(NameX, <<DimValue(3)>>), ValueInfoProto(NameY, <<DimValue(3)>>)>>}
AllInputLists ==
    {<<ValueInfoProto(NameX, s)>> : s \in Shapes}
    \cup {<<ValueInfoProto(NameShape0, <<DimValue(2)>>)>>}
    \cup {<<ValueInfoProto(NameX, <<DimValue(10), DimValue(3)>>),
            ValueInfoProto(NameShape0, <<DimValue(2)>>)>>}
AllOutputLists ==
    {<<ValueInfoProto(NameY, s)>> : s \in {<<DimValue(10)>>, <<DimValue(10), DimValue(3)>>}}
    \cup {<<ValueInfoProto(NameC, <<DimValue(10)>>)>>}

Graph(node, initializer, value_info, input, output) ==
    [node |-> node, initializer |-> initializer, value_info |-> value_info,
     input |-> input, output |-> output]

PlainInput == <<ValueInfoProto(NameX, <<DimValue(10), DimValue(3)>>)>>
PlainOutput == <<ValueInfoProto(NameY, <<DimValue(10)>>)>>

\* a model as onnx.load_model returns it: every target tensor in two small
\* graphs, every node list with a few target tensors, and every choice of
\* ValueInfo records around a Constant and a Reshape node
LoadedGraphs ==
    {Graph(n, <<t, Weight>>, <<>>, PlainInput, PlainOutput)
       : <<n, t>> \in FewNodeLists \X AllTargets}
    \cup {Graph(n, <<t, Weight>>, <<ValueInfoProto(NameY, <<DimValue(10), DimValue(3)>>)>>,
                 PlainInput, PlainOutput)
            : <<n, t>> \in AllNodeLists \X FewTargets}
    \cup {Graph(<<Constant, ReshapeX>>,
                 <<Encoded(NameShape0, "INT64", <<2>>, <<10, -1>>, "typed"), Weight>>,
                 vio[1], vio[2], vio[3])
            : vio \in AllValueInfoLists \X AllInputLists \X AllOutputLists}

BatchSizes == {BatchStr("N"), BatchInt(4)}

QueryNames == {NameX, NameY, NameC, NameMissing, NameXBeforeMerge,
               <<"x", SUFFIX, SUFFIX>>, <<"y", SUFFIX>>}

(* ------------------------------- state --------------------------------- *)
NoGraph == Graph(<<>>, <<>>, <<>>, <<>>, <<>>)

\* the calls of change_batch_size made so far: how many, the argument, the
\* graph before and the outcome of the last one, the graph handed to the
\* checker, and the argument and outcome of the call before it and whether
\* that call changed the graph
NoCalls == [n |-> 0, batch_size |-> BatchInt(0), pre |-> NoGraph, result |-> "",
            checked |-> FALSE, checked_model |-> NoGraph,
            prev_batch_size |-> BatchInt(0), prev_result |-> "",
            prev_changed |-> FALSE]

NoExtract == [called |-> FALSE, params |-> TensorProto(<<>>, "", <<>>, <<>>, <<>>, <<>>),
              ret |-> Raise("")]
NoFind == [called |-> FALSE, name |-> <<>>, ret |-> NotFound]

Init ==
    /\ graph \in LoadedGraphs
    /\ cbs = NoCalls
    /\ ext = NoExtract
    /\ fnd = NoFind

\* onnx.shape_inference.infer_shapes is a deterministic function of the
\* model: a model it has just answered for gets the same answer
checker_verdicts(mutated) ==
    IF cbs.checked /\ cbs.checked_model = mutated
    THEN {cbs.result = "ok"}
    ELSE BOOLEAN

\* change_batch_size(onnx_model, batch_size)
ChangeBatchSize(batch_size) ==
    /\ cbs.n < MaxCalls
    /\ LET r == rewrite(graph, batch_size)
           called == [n |-> cbs.n + 1, batch_size |-> batch_size, pre |-> graph,
                      result |-> r.exc, checked |-> FALSE, checked_model |-> NoGraph,
                      prev_batch_size |-> cbs.batch_size, prev_result |-> cbs.result,
                      prev_changed |-> cbs.n > 0 /\ cbs.pre # graph]
       IN  IF r.exc # ""
           THEN /\ graph' = r.graph
                /\ cbs' = called
           ELSE \E ok \in checker_verdicts(r.graph) :
                /\ graph' = after_check(graph, r.graph, ok)
                /\ cbs' = [called EXCEPT
                              !.result = IF ok THEN "ok" ELSE "ConsistencyCheckFailed",
                              !.checked = TRUE,
                              !.checked_model = r.graph]
    /\ ext' = NoExtract
    /\ fnd' = NoFind

\* extract_data(params) on an initializer of the graph
ExtractData(k) ==
    /\ ext' = [called |-> TRUE, params |-> graph.initializer[k],
               ret |-> extract_data(graph.initializer[k])]
    /\ fnd' = NoFind
    /\ UNCHANGED <<graph, cbs>>

\* find_tensor_value_info(onnx_model, name)
FindTensorValueInfo(name) ==
    /\ fnd' = [called |-> TRUE, name |-> name, ret |-> find_tensor_value_info(graph, name)]
    /\ ext' = NoExtract
    /\ UNCHANGED <<graph, cbs>>

Next ==
    \/ \E batch_size \in BatchSizes : ChangeBatchSize(batch_size)
    \/ \E k \in DOMAIN graph.initializer : ExtractData(k)
    \/ \E name \in QueryNames : FindTensorValueInfo(name)

Spec == Init /\ [][Next]_vars

(* ------------------------- properties: helpers ------------------------- *)
Collections == {"value_info", "input", "output"}
Coll(g, c) == IF c = "value_info" THEN g.value_info
              ELSE IF c = "input" THEN g.input ELSE g.output

\* names whose ValueInfo keeps its shape: initializers and Constant outputs
IsConstantName(g, name) ==
    \/ \E i \in DOMAIN g.initializer : g.initializer[i].name = name
    \/ \E k \in DOMAIN g.node : g.node[k].op_type = "Constant" /\ g.node[k].output[1] = name

\* d is the requested batch-size token
IsToken(d, batch_size) ==
    IF batch_size.is_str
    THEN d.which = "dim_param" /\ d.dim_param = batch_size.str
    ELSE d.which = "dim_value" /\ d.dim_value = batch_size.int

\* the elements a tensor stores, in the field the decoder reads
Elements(t) == select_data(t).ret

\* Reshape nodes of g whose data input is not an initializer and whose second
\* input names an initializer, with the position of that initializer
PatchedTargets(g) ==
    {j \in DOMAIN g.initializer :
       \E k \in DOMAIN g.node :
          /\ g.node[k].op_type = "Reshape"
          /\ \A i \in DOMAIN g.initializer : g.initializer[i].name # g.node[k].input[1]
          /\ Len(g.node[k].input) >= 2
          /\ g.initializer[j].name = g.node[k].input[2]
          /\ \A i \in 1..(j - 1) : g.initializer[i].name # g.node[k].input[2]}

(* ------------------------------ claim C1 ------------------------------- *)
\* C1: after change_batch_size(model, b) completes, every ValueInfo of
\* value_info, input and output whose name is neither an initializer name nor
\* a Constant output and whose shape has at least one dimension has
\* dimension 0 equal to the token b, and its other dimensions are what they
\* were before the call.
C1_BatchDimensionRewritten ==
    cbs.result = "ok" =>
      \A c \in Collections : \A i \in DOMAIN Coll(graph, c) :
         LET new == Coll(graph, c)[i]
             old == Coll(cbs.pre, c)[i]
         IN  (~IsConstantName(graph, new.name) /\ Len(new.shape) >= 1) =>
               /\ IsToken(new.shape[1], cbs.batch_size)
               /\ Len(new.shape) = Len(old.shape)
               /\ \A d \in 2..Len(new.shape) : new.shape[d] = old.shape[d]

\* a completed symbolic call that changed dimension 0 of a shape of rank 2
C1_Witness ==
    /\ cbs.result = "ok"
    /\ cbs.batch_size.is_str
    /\ \E c \in Collections : \E i \in DOMAIN Coll(graph, c) :
          /\ ~IsConstantName(graph, Coll(graph, c)[i].name)
          /\ Len(Coll(graph, c)[i].shape) = 2
          /\ Coll(cbs.pre, c)[i].shape[1] = DimValue(10)
          /\ Coll(graph, c)[i].shape[1] = DimParam("N")

(* ------------------------------ claim C2 ------------------------------- *)
\* C2: change_batch_size leaves unchanged the shape of every ValueInfo whose
\* name is an initializer name or the output of a Constant node; so on a
\* graph whose ValueInfo names are all of that kind every shape is unchanged.
C2_ConstantsKeepShape ==
    cbs.n > 0 =>
      \A c \in Collections :
         /\ Len(Coll(graph, c)) = Len(Coll(cbs.pre, c))
         /\ \A i \in DOMAIN Coll(graph, c) :
               IsConstantName(cbs.pre, Coll(cbs.pre, c)[i].name) =>
                 Coll(graph, c)[i] = Coll(cbs.pre, c)[i]

\* a second call on a graph all of whose ValueInfo names are initializer or
\* Constant names, one of them with a dimension 0 that is not the token
C2_Witness ==
    /\ cbs.n = 2
    /\ \A c \in Collections : \A i \in DOMAIN Coll(cbs.pre, c) :
          IsConstantName(cbs.pre, Coll(cbs.pre, c)[i].name)
    /\ \E c \in Collections : \E i \in DOMAIN Coll(cbs.pre, c) :
          /\ Len(Coll(cbs.pre, c)[i].shape) >= 1
          /\ ~IsToken(Coll(cbs.pre, c)[i].shape[1], cbs.batch_size)
    /\ Len(graph.value_info) + Len(graph.input) + Len(graph.output) = 3

(* ------------------------------ claim C3 ------------------------------- *)
\* C3: with a symbolic batch size, once the rewrite steps of
\* change_batch_size are done, the target-shape initializer of every Reshape
\* node whose first input is not an initializer keeps its name, has data type
\* INT64 and as many elements as before, its element 0 is 0 and its other
\* elements are the previous ones.
C3_TargetShapePatched ==
    (cbs.checked /\ cbs.batch_size.is_str) =>
      \A j \in PatchedTargets(cbs.pre) :
         LET old == cbs.pre.initializer[j]
             new == graph.initializer[j]
         IN  /\ new.name = old.name
             /\ new.data_type = "INT64"
             /\ Len(Elements(new)) = Len(Elements(old))
             /\ Len(Elements(new)) >= 1
             /\ Elements(new)[1] = 0
             /\ \A i \in 2..Len(Elements(new)) : Elements(new)[i] = Elements(old)[i]
             /\ new.dims = <<Len(Elements(new))>>

\* [10, -1] stored as raw bytes has become [0, -1] with dims [2]
C3_Witness ==
    /\ cbs.result = "ok"
    /\ cbs.batch_size.is_str
    /\ \E j \in PatchedTargets(cbs.pre) :
          /\ cbs.pre.initializer[j].raw_data = pack_all("q", <<10, -1>>)
          /\ cbs.pre.initializer[j].int64_data = <<>>
          /\ graph.initializer[j].int64_data = <<0, -1>>
          /\ graph.initializer[j].dims = <<2>>

(* ------------------------------ claim C4 ------------------------------- *)
\* Reshape nodes of g whose data input is an initializer, with the position of
\* the initializer their second input names
ExcludedTargets(g) ==
    {j \in DOMAIN g.initializer :
       \E k \in DOMAIN g.node :
          /\ g.node[k].op_type = "Reshape"
          /\ \E i \in DOMAIN g.initializer : g.initializer[i].name = g.node[k].input[1]
          /\ Len(g.node[k].input) >= 2
          /\ g.initializer[j].name = g.node[k].input[2]
          /\ \A i \in 1..(j - 1) : g.initializer[i].name # g.node[k].input[2]}

\* C4: with a symbolic batch size, the target-shape initializer of every
\* Reshape node whose first input names an initializer is left untouched, in
\* every graph, also when another Reshape node names the same initializer.
C4_ExcludedTargetUntouched ==
    (cbs.n > 0 /\ cbs.batch_size.is_str) =>
      \A j \in ExcludedTargets(cbs.pre) : graph.initializer[j] = cbs.pre.initializer[j]

(* ------------------------------ claim C5 ------------------------------- *)
Supported(t) == t.data_type \in {"FLOAT", "INT64"}
FormatChar(t) == IF t.data_type = "FLOAT" THEN "f" ELSE "q"
\* the typed sequence field of the tensor's declared data type
TypedField(t) == IF t.data_type = "FLOAT" THEN t.float_data ELSE t.int64_data
WholeElements(t) == Len(t.raw_data) % calcsize(FormatChar(t)) = 0

\* the same logical contents, shape and data type, stored the other way
StoredRaw(t) ==
    [t EXCEPT !.float_data = <<>>, !.int64_data = <<>>,
              !.raw_data = pack_all(FormatChar(t), TypedField(t))]
StoredTyped(t) ==
    LET c == iter_unpack(FormatChar(t), t.raw_data).ret IN
    [t EXCEPT !.float_data = IF t.data_type = "FLOAT" THEN c ELSE <<>>,
              !.int64_data = IF t.data_type = "INT64" THEN c ELSE <<>>,
              !.raw_data = <<>>]

\* C5: for a FLOAT or INT64 tensor, extract_data returns the same values
\* whether the contents are in the typed sequence field or in the raw byte
\* buffer, and when the typed field of the declared type and the raw buffer
\* are both populated it is the typed field that is used.
C5_EncodingsAgree ==
    (ext.called /\ Supported(ext.params)) =>
      /\ TypedField(ext.params) # <<>> =>
            /\ ext.ret = extract_data(StoredRaw(ext.params))
            /\ ext.ret.kind # "raise" => ext.ret.data = TypedField(ext.params)
      /\ (TypedField(ext.params) = <<>> /\ WholeElements(ext.params)) =>
            ext.ret = extract_data(StoredTyped(ext.params))

\* [10, -1] decoded from sixteen raw bytes
C5_Witness ==
    /\ ext.called
    /\ ext.params.data_type = "INT64"
    /\ ext.params.int64_data = <<>>
    /\ Len(ext.params.raw_data) = 16
    /\ ext.ret.kind = "array"
    /\ ext.ret.data = <<10, -1>>

(* ------------------------------ claim C6 ------------------------------- *)
\* the number of elements physically stored in the field the decoder reads
StoredCount(t) ==
    IF TypedField(t) # <<>> THEN Len(TypedField(t))
    ELSE Len(t.raw_data) \div calcsize(FormatChar(t))

\* C6: for an initializer with empty dims, extract_data never returns a
\* sequence; when the stored contents can be decoded (FLOAT or INT64, a whole
\* number of elements) it returns the single stored value as a bare scalar
\* if exactly one element is stored and otherwise fails the scalar
\* assertion, never dropping extra elements.
C6_ScalarInvariant ==
    (ext.called /\ ext.params.dims = <<>>) =>
      /\ ext.ret.kind # "array"
      /\ (Supported(ext.params)
           /\ (TypedField(ext.params) # <<>> \/ WholeElements(ext.params))) =>
            \/ /\ StoredCount(ext.params) = 1
               /\ ext.ret.kind = "scalar"
               /\ Len(ext.ret.data) = 1
               /\ ext.ret.data[1] = Elements(ext.params)[1]
            \/ /\ StoredCount(ext.params) # 1
               /\ ext.ret.kind = "raise"
               /\ ext.ret.exc = "AssertionError"

\* a scalar initializer storing two elements was refused
C6_Witness ==
    /\ ext.called
    /\ ext.params.dims = <<>>
    /\ StoredCount(ext.params) = 2
    /\ Supported(ext.params)
    /\ ext.ret.exc = "AssertionError"

(* ------------------------------ claim C7 ------------------------------- *)
\* value_info, input and output in the order itertools.chain visits them
Chain(g) == g.value_info \o g.input \o g.output
ChainPosition(g, r) ==
    IF r.coll = "value_info" THEN r.idx
    ELSE IF r.coll = "input" THEN Len(g.value_info) + r.idx
    ELSE Len(g.value_info) + Len(g.input) + r.idx
EndsWithSuffix(name) == Len(name) > 0 /\ name[Len(name)] = SUFFIX
Searched(name) == IF EndsWithSuffix(name) THEN SubSeq(name, 1, Len(name) - 1) ELSE name

C7_FirstMatch ==
    fnd.called =>
      LET n == Searched(fnd.name) IN
      /\ fnd.ret.found <=> \E p \in DOMAIN Chain(graph) : Chain(graph)[p].name = n
      /\ fnd.ret.found =>
            /\ fnd.ret.idx \in DOMAIN Coll(graph, fnd.ret.coll)
            /\ Coll(graph, fnd.ret.coll)[fnd.ret.idx].name = n
            /\ \A p \in 1..(ChainPosition(graph, fnd.ret) - 1) : Chain(graph)[p].name # n
      /\ ~fnd.ret.found => fnd.ret.exc = "ValueError"

\* C7: find_tensor_value_info strips one trailing '_before_merge' from the
\* name, returns the first record of that name in value_info, then input,
\* then output, raises ValueError exactly when there is none, and never
\* changes the graph.
C7_FindTensorValueInfo ==
    /\ []C7_FirstMatch
    /\ [][(fnd'.called /\ fnd' # fnd) => graph' = graph]_vars

\* 'x_before_merge' looked up where x is in value_info and in input
C7_Witness ==
    /\ fnd.called
    /\ fnd.name = NameXBeforeMerge
    /\ fnd.ret = Found("value_info", 1)
    /\ \E i \in DOMAIN graph.input : graph.input[i].name = NameX

(* ------------------------------ claim C8 ------------------------------- *)
\* every ValueInfo that qualifies carries the token in g
AllValueInfosRewritten(g, batch_size) ==
    \A c \in Collections : \A i \in DOMAIN Coll(g, c) :
       (~IsConstantName(g, Coll(g, c)[i].name) /\ Len(Coll(g, c)[i].shape) >= 1) =>
          IsToken(Coll(g, c)[i].shape[1], batch_size)

\* every target shape that is to be patched holds 0 at index 0 in g
AllTargetsPatched(g) ==
    \A j \in PatchedTargets(g) :
       /\ g.initializer[j].data_type = "INT64"
       /\ g.initializer[j].int64_data # <<>>
       /\ g.initializer[j].int64_data[1] = 0

\* C8: when change_batch_size reaches the end of the rewrite steps, the
\* checker is given the graph with every ValueInfo and target-shape mutation
\* applied; if the checker fails, the failure reaches the caller and the
\* graph keeps those mutations.
C8_CheckAfterMutation ==
    /\ cbs.checked =>
          /\ AllValueInfosRewritten(cbs.checked_model, cbs.batch_size)
          /\ cbs.batch_size.is_str => AllTargetsPatched(cbs.checked_model)
          /\ cbs.result \in {"ok", "ConsistencyCheckFailed"}
          /\ graph = cbs.checked_model
    /\ (cbs.n > 0 /\ ~cbs.checked) =>
          cbs.result \notin {"", "ok", "ConsistencyCheckFailed"}

\* the checker refused a graph in which a ValueInfo and a target shape had
\* been rewritten, and the caller holds that graph
C8_Witness ==
    /\ cbs.result = "ConsistencyCheckFailed"
    /\ cbs.batch_size.is_str
    /\ graph.input # cbs.pre.input
    /\ \E j \in PatchedTargets(cbs.pre) :
          /\ Elements(cbs.pre.initializer[j])[1] = 10
          /\ graph.initializer[j].int64_data[1] = 0

(* ------------------------------ claim C9 ------------------------------- *)
\* C9: with a symbolic batch size, if a Reshape node whose first input is not
\* an initializer has a target-shape initializer that decodes to zero
\* elements, change_batch_size is aborted by the out-of-bounds write to
\* element 0 (the shape-mismatch case): it does not reach the checker, does
\* not return normally and leaves that initializer as it was.
C9_EmptyTargetAborts ==
    (cbs.n > 0 /\ cbs.batch_size.is_str) =>
      \A j \in PatchedTargets(cbs.pre) :
         (/\ extract_data(cbs.pre.initializer[j]).kind = "array"
          /\ extract_data(cbs.pre.initializer[j]).data = <<>>) =>
            /\ cbs.result = "IndexError"
            /\ ~cbs.checked
            /\ graph.initializer[j] = cbs.pre.initializer[j]

\* a call met a target shape with dims [0] and no elements, after the
\* ValueInfo records had been rewritten
C9_Witness ==
    /\ cbs.n > 0
    /\ cbs.batch_size.is_str
    /\ cbs.result = "IndexError"
    /\ graph.input # cbs.pre.input
    /\ \E j \in PatchedTargets(cbs.pre) :
          /\ cbs.pre.initializer[j].dims = <<0>>
          /\ Elements(cbs.pre.initializer[j]) = <<>>

(* ------------------------------ claim C10 ------------------------------ *)
\* C10: a second change_batch_size with the same symbolic name, after a first
\* one that completed, completes too and leaves every ValueInfo and every
\* initializer (name, data type, dims, stored values, encoding) as the first
\* call left them.
C10_SymbolicIdempotent ==
    (/\ cbs.n >= 2
     /\ cbs.prev_result = "ok"
     /\ cbs.batch_size.is_str
     /\ cbs.prev_batch_size = cbs.batch_size) =>
       /\ cbs.result = "ok"
       /\ graph = cbs.pre

\* the first call rewrote the graph and patched a target shape, the second
\* one with the same name found nothing to change
C10_Witness ==
    /\ cbs.n = 2
    /\ cbs.prev_result = "ok"
    /\ cbs.prev_changed
    /\ cbs.batch_size.is_str
    /\ cbs.prev_batch_size = cbs.batch_size
    /\ cbs.result = "ok"
    /\ \E j \in PatchedTargets(graph) : graph.initializer[j].int64_data = <<0, -1>>

====
